---- MODULE Spec2Model ----
(***************************************************************************)
(* A model of Luthor (Lex.h): the ordered table of token definitions, the  *)
(* anchored first-rule-wins scan loop of Lexer::analyze and its location   *)
(* tracking.  Offsets are 0-based distances from std::begin(script).       *)
(***************************************************************************)
EXTENDS Integers, Sequences, FiniteSets, TLC

VARIABLES m_expressions, defined, pc, script, errorThrows,
          cursor, lastLineBegin, location, match, events, other

vars == <<m_expressions, defined, pc, script, errorThrows,
          cursor, lastLineBegin, location, match, events, other>>

(***************************************************************************)
(* Bounds of the exploration.                                              *)
(***************************************************************************)
MaxLen == 3

MaxRules == 2

MaxRepeat == 2

(***************************************************************************)
(* Characters and input scripts.                                           *)
(***************************************************************************)
NL == "\n"

Digits == {"0", "1", "2", "3", "4", "5", "6", "7", "8", "9"}

ScriptAlphabet == {"a", "b", NL}

RECURSIVE SeqsUpTo(_, _)
SeqsUpTo(S, n) ==
    IF n = 0 THEN {<< >>}
    ELSE LET shorter == SeqsUpTo(S, n - 1)
         IN  shorter \cup {Append(s, c) : s \in {t \in shorter : Len(t) = n - 1}, c \in S}

ExampleScripts == { <<"1", "2", NL, "3", "4">>, <<"$">>, <<"1", NL, NL, "2">> }

Scripts == SeqsUpTo(ScriptAlphabet, MaxLen) \cup ExampleScripts

(***************************************************************************)
(* Regular expressions: the compiled form held in TokenDef::Expr.          *)
(***************************************************************************)
Eps == [t |-> "eps"]

Set(cs) == [t |-> "set", cs |-> cs]

Chr(c) == Set({c})

Cat(l, r) == [t |-> "cat", l |-> l, r |-> r]

Alt(l, r) == [t |-> "alt", l |-> l, r |-> r]

Star(l) == [t |-> "star", l |-> l]

Plus(l) == Cat(l, Star(l))

Opt(l) == Alt(l, Eps)

RegexError == [t |-> "regex_error"]

\* The _Regex constructor: the compiled expression of a pattern text, or
\* RegexError when the text is malformed and the constructor throws.
Compile(text) ==
    CASE text = "a"           -> Chr("a")
      [] text = "ab"          -> Cat(Chr("a"), Chr("b"))
      [] text = "a*"          -> Star(Chr("a"))
      [] text = "[0-9]+"      -> Plus(Set(Digits))
      [] text = "\\n"         -> Chr(NL)
      [] text = "(\\r?\\n)+"  -> Plus(Cat(Opt(Chr("\r")), Chr(NL)))
      [] OTHER                -> RegexError

\* The (id, pattern text) pairs a caller may pass to define.
Definitions ==
    { <<"A", "a">>, <<"AB", "ab">>, <<"STAR", "a*">>,
      <<"INTEGER", "[0-9]+">>, <<"NEWLINE", "\\n">>,
      <<"NEWLINE", "(\\r?\\n)+">>, <<"A", "(">> }

(***************************************************************************)
(* The matcher behind std::regex_search: the ends of the matches of re     *)
(* that start at offset i of s, in the order in which a backtracking       *)
(* matcher finds them (left alternative first, greedy repetition).         *)
(***************************************************************************)
RECURSIVE Ends(_, _, _)
RECURSIVE EndsFrom(_, _, _)
Ends(re, s, i) ==
    CASE re.t = "eps"  -> <<i>>
      [] re.t = "set"  -> IF i < Len(s) /\ s[i + 1] \in re.cs THEN <<i + 1>> ELSE << >>
      [] re.t = "cat"  -> EndsFrom(re.r, s, Ends(re.l, s, i))
      [] re.t = "alt"  -> Ends(re.l, s, i) \o Ends(re.r, s, i)
      [] re.t = "star" -> LET Advances(j) == j > i
                          IN  EndsFrom(re, s, SelectSeq(Ends(re.l, s, i), Advances)) \o <<i>>
      [] OTHER         -> << >>

EndsFrom(re, s, js) ==
    IF js = << >> THEN << >>
    ELSE Ends(re, s, Head(js)) \o EndsFrom(re, s, Tail(js))

\* std::regex_search(first, last, results, expr, match_continuous |
\* match_not_null) over the text s from offset start: the length of
\* results.str(), or -1 when it returns false.
SearchFrom_NullAllowed(expr, s, start) ==
    LET found == Ends(expr, s, start)
    IN  IF found = << >> THEN -1 ELSE Head(found) - start

\* Without match_continuous: the first match found at or after start.
SearchFrom_Unanchored(expr, s, start) ==
    LET SizeAt(p) ==
            LET NotNull(j) == j > p
                found == SelectSeq(Ends(expr, s, p), NotNull)
            IN  IF found = << >> THEN -1 ELSE Head(found) - p
        hits == {p \in start .. Len(s) : SizeAt(p) >= 0}
    IN  IF hits = {} THEN -1
        ELSE SizeAt(CHOOSE p \in hits : \A q \in hits : p <= q)

SearchFrom(expr, s, start) ==
    LET NotNull(j) == j > start
        found == SelectSeq(Ends(expr, s, start), NotNull)
    IN  IF found = << >> THEN -1 ELSE Head(found) - start

\* The expressions a table can hold and the texts a search can range over.
Expressions == {Compile(d[2]) : d \in Definitions}

Texts == UNION {{SubSeq(s, 1, n) : n \in 0 .. Len(s)} : s \in Scripts}

\* SearchFrom, tabulated.
Searches == [expr \in Expressions, s \in Texts |-> [start \in 0 .. Len(s) |-> SearchFrom(expr, s, start)]]

regex_search(start, end, expr) == Searches[expr, SubSeq(script, 1, end)][start]

(***************************************************************************)
(* Lexer                                                                   *)
(***************************************************************************)
\* std::end(m_expressions), as an index into the table.
EndOfExpressions == Len(m_expressions) + 1

TokenDef(id, regex) == [ID |-> id, Expr |-> Compile(regex)]

\* The loop of MatchRegex from table index expr on: the first rule whose
\* regex_search succeeds, with the end of its lexeme.
RECURSIVE MatchRegexFrom(_, _, _)
MatchRegexFrom(expr, start, end) ==
    IF expr = EndOfExpressions THEN [Token |-> EndOfExpressions, end |-> end]
    ELSE LET size == regex_search(start, end, m_expressions[expr].Expr)
         IN  IF size >= 0 THEN [Token |-> expr, end |-> start + size]
             ELSE MatchRegexFrom(expr + 1, start, end)

RECURSIVE MatchRegexLast(_, _, _)
MatchRegexLast(expr, start, end) ==
    IF expr = 0 THEN [Token |-> EndOfExpressions, end |-> end]
    ELSE LET size == regex_search(start, end, m_expressions[expr].Expr)
         IN  IF size >= 0 THEN [Token |-> expr, end |-> start + size]
             ELSE MatchRegexLast(expr - 1, start, end)

\* Only the first rule of the table is tried.
MatchRegex_FirstOnly(start, end) ==
    IF EndOfExpressions = 1 THEN [Token |-> EndOfExpressions, end |-> end]
    ELSE LET size == regex_search(start, end, m_expressions[1].Expr)
         IN  IF size >= 0 THEN [Token |-> 1, end |-> start + size]
             ELSE [Token |-> EndOfExpressions, end |-> end]

MatchRegex_Reversed(start, end) == MatchRegexLast(Len(m_expressions), start, end)

\* The end of the lexeme measured from the start of the script.
MatchRegex_FromBegin(start, end) ==
    LET m == MatchRegexFrom(1, start, end)
    IN  IF m.Token = EndOfExpressions THEN m ELSE [m EXCEPT !.end = @ - start]

MatchRegex(start, end) == MatchRegexFrom(1, start, end)

SearchRegex_KeepEnd(start, end) ==
    IF start >= end
    THEN [Token |-> EndOfExpressions, LexemeStart |-> start, LexemeEnd |-> end]
    ELSE LET m == MatchRegex(start, end)
         IN  [Token |-> m.Token, LexemeStart |-> start, LexemeEnd |-> m.end]

SearchRegex(start, end) ==
    IF start >= end
    THEN [Token |-> EndOfExpressions, LexemeStart |-> start, LexemeEnd |-> end]
    ELSE LET m == MatchRegex(start, end)
         IN  [Token       |-> m.Token,
              LexemeStart |-> start,
              LexemeEnd   |-> IF m.Token = EndOfExpressions THEN start ELSE m.end]

\* The loop of CountLineNums over [a, b): the number of newlines and the
\* updated line-begin reference.
RECURSIVE CountLineNums(_, _, _)
CountLineNums_NoAdvance(a, b, lineLineBegin) ==
    LET nls == {i \in a .. (b - 1) : script[i + 1] = NL}
    IN  [lineCount |-> Cardinality(nls), lineLineBegin |-> lineLineBegin]

\* The line-begin reference is moved one character too far.
CountLineNums_PastNewline(a, b, lineLineBegin) ==
    LET nls == {i \in a .. (b - 1) : script[i + 1] = NL}
    IN  [lineCount     |-> Cardinality(nls),
         lineLineBegin |-> IF nls = {} THEN lineLineBegin
                           ELSE 2 + CHOOSE i \in nls : \A j \in nls : j <= i]

CountLineNums(a, b, lineLineBegin) ==
    IF ~(a < b) THEN [lineCount |-> 0, lineLineBegin |-> lineLineBegin]
    ELSE IF script[a + 1] = NL
         THEN LET rest == CountLineNums(a + 1, b, a + 1)
              IN  [rest EXCEPT !.lineCount = @ + 1]
         ELSE CountLineNums(a + 1, b, lineLineBegin)

\* Lines 127-128 of analyze: the location reported for this iteration.
Locate_AfterAdvance(loc, cur, lineBegin, m) ==
    [loc EXCEPT !.global = m.LexemeEnd, !.within_line = 1 + cur - lineBegin]

\* The location is refreshed for matches only.
Locate_StaleOnError(loc, cur, lineBegin, m) ==
    IF m.Token = EndOfExpressions THEN loc
    ELSE [loc EXCEPT !.global = cur, !.within_line = 1 + cur - lineBegin]

Locate(loc, cur, lineBegin, m) ==
    [loc EXCEPT !.global = cur, !.within_line = 1 + cur - lineBegin]

\* The condition of the while loop of analyze.
LoopCond_Inclusive(cur, end) == cur <= end

LoopCond(cur, end) == cur < end

\* The locals of an analyze call and the events its sinks have received,
\* for a thread that has not called analyze yet.
NoCall ==
    [pc |-> "idle", script |-> << >>, errorThrows |-> FALSE, cursor |-> 0,
     lastLineBegin |-> 0,
     location |-> [line_number |-> 1, within_line |-> 1, global |-> 0],
     match |-> [Token |-> 1, LexemeStart |-> 0, LexemeEnd |-> 0],
     events |-> << >>]

(***************************************************************************)
(* Initial state: a freshly constructed Lexer, no analyze call made yet.   *)
(***************************************************************************)
Init ==
    /\ m_expressions = << >>
    /\ defined = [id |-> "", text |-> "", result |-> "none"]
    /\ pc = "idle"
    /\ script = << >>
    /\ errorThrows = FALSE
    /\ cursor = 0
    /\ lastLineBegin = 0
    /\ location = [line_number |-> 1, within_line |-> 1, global |-> 0]
    /\ match = [Token |-> 1, LexemeStart |-> 0, LexemeEnd |-> 0]
    /\ events = << >>
    /\ other = NoCall

\* Lexer::define.  The TokenDef temporary is constructed first; when its
\* regex constructor throws, push_back is never reached.
define_PushAnyway(id, definitionRegex) ==
    /\ pc = "idle"
    /\ Len(m_expressions) < MaxRules
    /\ m_expressions' = Append(m_expressions, TokenDef(id, definitionRegex))
    /\ defined' = [id |-> id, text |-> definitionRegex,
                   result |-> IF Compile(definitionRegex) = RegexError
                              THEN "regex_error" ELSE "ok"]
    /\ UNCHANGED <<pc, script, errorThrows, cursor, lastLineBegin, location, match, events, other>>

\* A rule is appended only when no rule of the table has its ID yet.
define_Dedup(id, definitionRegex) ==
    /\ pc = "idle"
    /\ IF Compile(definitionRegex) = RegexError
       THEN /\ defined' = [id |-> id, text |-> definitionRegex, result |-> "regex_error"]
            /\ UNCHANGED m_expressions
       ELSE /\ Len(m_expressions) < MaxRules
            /\ m_expressions' = IF \E k \in DOMAIN m_expressions : m_expressions[k].ID = id
                                THEN m_expressions
                                ELSE Append(m_expressions, TokenDef(id, definitionRegex))
            /\ defined' = [id |-> id, text |-> definitionRegex, result |-> "ok"]
    /\ UNCHANGED <<pc, script, errorThrows, cursor, lastLineBegin, location, match, events, other>>

define(id, definitionRegex) ==
    /\ pc = "idle"
    /\ IF Compile(definitionRegex) = RegexError
       THEN /\ defined' = [id |-> id, text |-> definitionRegex, result |-> "regex_error"]
            /\ UNCHANGED m_expressions
       ELSE /\ Len(m_expressions) < MaxRules
            /\ m_expressions' = Append(m_expressions, TokenDef(id, definitionRegex))
            /\ defined' = [id |-> id, text |-> definitionRegex, result |-> "ok"]
    /\ UNCHANGED <<pc, script, errorThrows, cursor, lastLineBegin, location, match, events, other>>

\* Entry of Lexer::analyze (lines 113-121), with the script and the error
\* functor passed by the caller; throws tells whether that functor throws
\* (as ErrorHandler does) or returns.
\* location is not re-initialised by a later call (a static local).
analyze_StaticLocation(s, throws) ==
    /\ pc \in {"idle", "done", "aborted"}
    /\ script' = s
    /\ errorThrows' = throws
    /\ location' = location
    /\ cursor' = 0
    /\ lastLineBegin' = 0
    /\ match' = [Token |-> EndOfExpressions, LexemeStart |-> 0, LexemeEnd |-> 0]
    /\ events' = << >>
    /\ pc' = "loop"
    /\ UNCHANGED <<m_expressions, defined, other>>

analyze(s, throws) ==
    /\ pc \in {"idle", "done", "aborted"}
    /\ script' = s
    /\ errorThrows' = throws
    /\ location' = [line_number |-> 1, within_line |-> 1, global |-> 0]
    /\ cursor' = 0
    /\ lastLineBegin' = 0
    /\ match' = [Token |-> EndOfExpressions, LexemeStart |-> 0, LexemeEnd |-> 0]
    /\ events' = << >>
    /\ pc' = "loop"
    /\ UNCHANGED <<m_expressions, defined, other>>

\* One iteration of the while loop of analyze (lines 122-145).
Iterate ==
    /\ pc = "loop"
    /\ LoopCond(cursor, Len(script))
    /\ Len(events) < Len(script) + MaxRepeat
    /\ LET m   == SearchRegex(cursor, Len(script))
           loc == Locate(location, cursor, lastLineBegin, m)
       IN  /\ match' = m
           /\ IF m.Token = EndOfExpressions
              THEN /\ events' = Append(events, [kind |-> "error", location |-> loc])
                   /\ IF errorThrows
                      THEN /\ pc' = "aborted"
                           /\ location' = loc
                           /\ UNCHANGED <<cursor, lastLineBegin>>
                      ELSE LET n == CountLineNums(cursor, m.LexemeEnd, lastLineBegin)
                           IN  /\ location' = [loc EXCEPT !.line_number = @ + n.lineCount]
                               /\ lastLineBegin' = n.lineLineBegin
                               /\ cursor' = m.LexemeEnd
                               /\ pc' = "loop"
              ELSE LET n == CountLineNums(cursor, m.LexemeEnd, lastLineBegin)
                   IN  /\ events' = Append(events,
                                       [kind        |-> "match",
                                        location    |-> loc,
                                        id          |-> m_expressions[m.Token].ID,
                                        LexemeStart |-> m.LexemeStart,
                                        LexemeEnd   |-> m.LexemeEnd])
                       /\ location' = [loc EXCEPT !.line_number = @ + n.lineCount]
                       /\ lastLineBegin' = n.lineLineBegin
                       /\ cursor' = m.LexemeEnd
                       /\ pc' = "loop"
    /\ UNCHANGED <<m_expressions, defined, script, errorThrows, other>>

\* The loop condition fails and analyze returns.
Return ==
    /\ pc = "loop"
    /\ ~LoopCond(cursor, Len(script))
    /\ pc' = "done"
    /\ UNCHANGED <<m_expressions, defined, script, errorThrows,
                   cursor, lastLineBegin, location, match, events, other>>

Next ==
    \/ \E d \in Definitions : define(d[1], d[2])
    \/ \E s \in Scripts, throws \in BOOLEAN : analyze(s, throws)
    \/ Iterate
    \/ Return

Spec == Init /\ [][Next]_vars

\* A Lexer on which analyze is called once.  A running analyze call keeps
\* executing its loop on the calling thread until it returns or throws.
NextOneCall ==
    \/ \E d \in Definitions : define(d[1], d[2])
    \/ \E s \in Scripts, throws \in BOOLEAN : pc = "idle" /\ analyze(s, throws)
    \/ Iterate
    \/ Return

LiveSpec == Init /\ [][NextOneCall]_vars /\ WF_vars(Iterate) /\ WF_vars(Return)

\* Lexer::define called once an analyze call has begun: from inside a sink
\* of the running call (the rest of the iteration does not read the table)
\* or after the call has ended.  define itself has no such distinction.
defineLate_Prepend(id, definitionRegex) ==
    /\ pc # "idle"
    /\ IF Compile(definitionRegex) = RegexError
       THEN /\ defined' = [id |-> id, text |-> definitionRegex, result |-> "regex_error"]
            /\ UNCHANGED m_expressions
       ELSE /\ Len(m_expressions) < MaxRules
            /\ m_expressions' = <<TokenDef(id, definitionRegex)>> \o m_expressions
            /\ defined' = [id |-> id, text |-> definitionRegex, result |-> "ok"]
    /\ UNCHANGED <<pc, script, errorThrows, cursor, lastLineBegin, location, match, events, other>>

defineLate(id, definitionRegex) ==
    /\ pc # "idle"
    /\ IF Compile(definitionRegex) = RegexError
       THEN /\ defined' = [id |-> id, text |-> definitionRegex, result |-> "regex_error"]
            /\ UNCHANGED m_expressions
       ELSE /\ Len(m_expressions) < MaxRules
            /\ m_expressions' = Append(m_expressions, TokenDef(id, definitionRegex))
            /\ defined' = [id |-> id, text |-> definitionRegex, result |-> "ok"]
    /\ UNCHANGED <<pc, script, errorThrows, cursor, lastLineBegin, location, match, events, other>>

\* A Lexer whose caller also calls define during and after scans.
NextLate ==
    \/ \E d \in Definitions : define(d[1], d[2])
    \/ \E d \in Definitions : defineLate(d[1], d[2])
    \/ \E s \in Scripts, throws \in BOOLEAN : analyze(s, throws)
    \/ Iterate
    \/ Return

SpecLate == Init /\ [][NextLate]_vars

\* Two threads use the Lexer.  The variables of the scan hold the locals of
\* the analyze call of the thread that is executing; other holds those of
\* the thread that is not.  Switch hands execution to the other thread
\* between two steps; m_expressions is the only state the threads share.
Switch ==
    /\ other' = [pc |-> pc, script |-> script, errorThrows |-> errorThrows,
                 cursor |-> cursor, lastLineBegin |-> lastLineBegin,
                 location |-> location, match |-> match, events |-> events]
    /\ pc' = other.pc
    /\ script' = other.script
    /\ errorThrows' = other.errorThrows
    /\ cursor' = other.cursor
    /\ lastLineBegin' = other.lastLineBegin
    /\ location' = other.location
    /\ match' = other.match
    /\ events' = other.events
    /\ UNCHANGED <<m_expressions, defined>>

ThreadScripts ==
    SeqsUpTo({"a", NL}, MaxLen - 2) \cup {<<"a", NL, "a">>, <<NL, "a">>, <<"$">>}

\* The table is built before either thread scans; then both threads call
\* analyze, any number of times, interleaved step by step.
NextThreads ==
    \/ \E d \in Definitions : other.pc = "idle" /\ define(d[1], d[2])
    \/ \E s \in ThreadScripts, throws \in BOOLEAN : analyze(s, throws)
    \/ Iterate
    \/ Return
    \/ Switch

SpecThreads == Init /\ [][NextThreads]_vars

(***************************************************************************)
(* Vocabulary of the properties.  Matching is stated here by the language  *)
(* of an expression, independently of the matcher above: LangEnds is the   *)
(* set of offsets j such that s[i, j) belongs to the language of re.       *)
(***************************************************************************)
RECURSIVE LangEnds(_, _, _)
RECURSIVE StarClosure(_, _, _)
LangEnds(re, s, i) ==
    CASE re.t = "eps"  -> {i}
      [] re.t = "set"  -> {j \in {i + 1} : j <= Len(s) /\ s[j] \in re.cs}
      [] re.t = "cat"  -> UNION {LangEnds(re.r, s, j) : j \in LangEnds(re.l, s, i)}
      [] re.t = "alt"  -> LangEnds(re.l, s, i) \cup LangEnds(re.r, s, i)
      [] re.t = "star" -> StarClosure(re.l, s, {i})
      [] OTHER         -> {}

StarClosure(re, s, S) ==
    LET N == S \cup UNION {LangEnds(re, s, j) : j \in S}
    IN  IF N = S THEN S ELSE StarClosure(re, s, N)

\* Rule k has a non-empty match anchored at offset p of the script.
RuleMatchesAt(k, p) == \E j \in LangEnds(m_expressions[k].Expr, script, p) : j > p

RulesMatchingAt(p) == {k \in 1 .. Len(m_expressions) : RuleMatchesAt(k, p)}

Lowest(S) == CHOOSE k \in S : \A l \in S : k <= l

Last(seq) == seq[Len(seq)]

IsMatch(e) == e.kind = "match"

IsNoMatch(e) == e.kind = "error"

\* The step delivers one event to a sink.
Emits == Len(events') = Len(events) + 1

Scanning == pc # "idle"

\* Every position for which an event was delivered has a matching rule.
VisitedMatchable == \A k \in DOMAIN events : RulesMatchingAt(events[k].location.global) # {}

RECURSIVE Lexemes(_)
Lexemes(evs) ==
    IF evs = << >> THEN << >>
    ELSE LET e == Last(evs)
         IN  Lexemes(SubSeq(evs, 1, Len(evs) - 1)) \o
             (IF IsMatch(e) THEN SubSeq(script, e.LexemeStart + 1, e.LexemeEnd) ELSE << >>)

\* The positions reachable from offset 0 by back-to-back non-empty matches.
RECURSIVE Reachable(_)
Reachable(S) ==
    LET N == S \cup {j \in 1 .. Len(script) :
                        \E p \in S, k \in 1 .. Len(m_expressions) :
                            j > p /\ j \in LangEnds(m_expressions[k].Expr, script, p)}
    IN  IF N = S THEN S ELSE Reachable(N)

Decomposable == Len(script) \in Reachable({0})

NewlinesBefore(p) == {i \in 1 .. p : script[i] = NL}

LineOf(p) == 1 + Cardinality(NewlinesBefore(p))

ColumnOf(p) ==
    LET nls == NewlinesBefore(p)
    IN  1 + p - (IF nls = {} THEN 0 ELSE CHOOSE i \in nls : \A j \in nls : j <= i)

(***************************************************************************)
(* Properties                                                              *)
(***************************************************************************)
PrecedenceTable == <<TokenDef("A", "a"), TokenDef("AB", "ab")>>

\* C1: precedence over length.  At every position for which an event was
\* delivered and at which some rule has a non-empty anchored match, the
\* event is a match carrying the kind of the lowest-index such rule and a
\* lexeme of that rule, whatever longer matches later rules offer; the rule
\* selected by the last iteration is that lowest-index rule.  With the table
\* [A = 'a', AB = 'ab'] the script 'ab' yields A 'a' at (1,1) and never AB.
C1_PrecedenceOverLength ==
    Scanning =>
        /\ \A k \in DOMAIN events :
              LET p == events[k].location.global
                  rules == RulesMatchingAt(p)
              IN  rules # {} =>
                     /\ IsMatch(events[k])
                     /\ events[k].id = m_expressions[Lowest(rules)].ID
                     /\ events[k].LexemeEnd > p
                     /\ events[k].LexemeEnd \in
                            LangEnds(m_expressions[Lowest(rules)].Expr, script, p)
                     /\ k = Len(events) => match.Token = Lowest(rules)
        /\ (m_expressions = PrecedenceTable /\ script = <<"a", "b">> /\ events # << >>) =>
              /\ events[1] = [kind |-> "match",
                              location |-> [line_number |-> 1, within_line |-> 1, global |-> 0],
                              id |-> "A", LexemeStart |-> 0, LexemeEnd |-> 1]
              /\ \A k \in DOMAIN events : IsMatch(events[k]) => events[k].id # "AB"

\* An earlier rule was selected although a later rule matches strictly longer.
C1_Witness ==
    /\ Scanning
    /\ events # << >>
    /\ IsMatch(Last(events))
    /\ \E k \in RulesMatchingAt(match.LexemeStart) :
          /\ k > match.Token
          /\ \E j \in LangEnds(m_expressions[k].Expr, script, match.LexemeStart) :
                j > match.LexemeEnd

\* C2: no empty matches.  Every step that delivers a match event delivers a
\* lexeme with LexemeEnd > LexemeStart and leaves the cursor strictly
\* greater than it was.
C2_NoEmptyMatches ==
    [][(Emits /\ IsMatch(Last(events'))) =>
          /\ Last(events').LexemeEnd > Last(events').LexemeStart
          /\ cursor' > cursor]_vars

\* A match was delivered at a position where an earlier rule of the table
\* matches the empty string only.
C2_Witness ==
    /\ Scanning
    /\ events # << >>
    /\ IsMatch(Last(events))
    /\ Last(events).LexemeEnd > Last(events).LexemeStart
    /\ \E k \in 1 .. Len(m_expressions) :
          /\ k < match.Token
          /\ LangEnds(m_expressions[k].Expr, script, match.LexemeStart) = {match.LexemeStart}

\* C3 as stated: whenever the script is a concatenation of back-to-back
\* substrings each matching some rule, only match events are delivered and,
\* on return, the lexemes concatenated in order are the script.
C3_Original ==
    (Scanning /\ Decomposable) =>
        /\ \A k \in DOMAIN events : IsMatch(events[k])
        /\ pc = "done" => Lexemes(events) = script

\* C3 as amended: when some rule has a non-empty anchored match at every
\* position the scan visits, only match events are delivered, each lexeme
\* starts where the previous one ended (the first at offset 0), the lexemes
\* concatenated in order are the script up to the cursor, and on return the
\* cursor is the end of the script.
C3_Coverage ==
    (Scanning /\ VisitedMatchable) =>
        /\ \A k \in DOMAIN events :
              /\ IsMatch(events[k])
              /\ events[k].LexemeStart = IF k = 1 THEN 0 ELSE events[k - 1].LexemeEnd
        /\ Lexemes(events) = SubSeq(script, 1, cursor)
        /\ pc # "aborted"
        /\ pc = "done" => cursor = Len(script) /\ Lexemes(events) = script

\* analyze returned after covering a script with several lexemes, one of
\* them selected from a rule that is not the first of the table.
C3_Witness ==
    /\ pc = "done"
    /\ Len(events) >= 2
    /\ VisitedMatchable
    /\ Lexemes(events) = script
    /\ match.Token > 1

\* C4 as stated: with an error functor that returns, a position at which no
\* rule matches gets exactly one no-match event (and analyze then returns).
C4_StuckCursor ==
    (Scanning /\ ~errorThrows) =>
        \A j, k \in DOMAIN events :
            (IsNoMatch(events[j]) /\ IsNoMatch(events[k])
                /\ events[j].location.global = events[k].location.global) => j = k

\* C5: no automatic skip.  A step that delivers a no-match event leaves the
\* cursor, the line number and the line-begin reference unchanged, and the
\* event delivered right after a no-match event is that same event again.
C5_NoSkipOnNoMatch ==
    [][/\ (Emits /\ IsNoMatch(Last(events'))) =>
             /\ cursor' = cursor
             /\ lastLineBegin' = lastLineBegin
             /\ location'.line_number = location.line_number
       /\ (Emits /\ events # << >> /\ IsNoMatch(Last(events))) =>
             Last(events') = Last(events)]_vars

\* The same position was reported twice, after some lexeme was consumed.
C5_Witness ==
    /\ pc = "loop"
    /\ Len(events) >= 3
    /\ IsMatch(events[1])
    /\ IsNoMatch(events[Len(events) - 1])
    /\ Last(events) = events[Len(events) - 1]
    /\ cursor = Last(events).location.global
    /\ cursor > 0

LocationTable == <<TokenDef("INTEGER", "[0-9]+"), TokenDef("NEWLINE", "\\n")>>

At(line, col, offset) == [line_number |-> line, within_line |-> col, global |-> offset]

\* C6: line and column tracking.  Every event carries line_number = 1 + the
\* number of newlines of the script before the position of its iteration
\* and within_line = 1 + the distance of that position from the character
\* after the last such newline (from the start of the script if none); the
\* script '12\n34' under INTEGER = [0-9]+, NEWLINE = \n yields INTEGER '12'
\* at (1,1), NEWLINE at (1,3), INTEGER '34' at (2,1).
C6_LineAndColumn ==
    Scanning =>
        /\ \A k \in DOMAIN events :
              LET p == events[k].location.global
              IN  /\ events[k].location.line_number = LineOf(p)
                  /\ events[k].location.within_line = ColumnOf(p)
        /\ (m_expressions = LocationTable /\ script = <<"1", "2", NL, "3", "4">>
               /\ pc = "done") =>
              events = << [kind |-> "match", location |-> At(1, 1, 0), id |-> "INTEGER",
                           LexemeStart |-> 0, LexemeEnd |-> 2],
                          [kind |-> "match", location |-> At(1, 3, 2), id |-> "NEWLINE",
                           LexemeStart |-> 2, LexemeEnd |-> 3],
                          [kind |-> "match", location |-> At(2, 1, 3), id |-> "INTEGER",
                           LexemeStart |-> 3, LexemeEnd |-> 5] >>

\* An event was delivered right after a lexeme holding two newlines.
C6_Witness ==
    /\ Scanning
    /\ Len(events) >= 2
    /\ LET e == events[Len(events) - 1]
       IN  /\ IsMatch(e)
           /\ Cardinality({i \in (e.LexemeStart + 1) .. e.LexemeEnd : script[i] = NL}) >= 2
           /\ Last(events).location.line_number = e.location.line_number + 2
           /\ Last(events).location.within_line = 1

\* C7: global offset.  The event delivered by an iteration carries global =
\* the cursor at which the iteration made its match attempt, which for a
\* match event is the offset of LexemeStart.
C7_GlobalOffset ==
    [][Emits =>
          /\ Last(events').location.global = cursor
          /\ IsMatch(Last(events')) => Last(events').LexemeStart = cursor]_vars

\* A match event and a no-match event were delivered past the start.
C7_Witness ==
    /\ Scanning
    /\ Len(events) >= 3
    /\ IsMatch(events[2])
    /\ events[2].location.global > 0
    /\ IsNoMatch(events[3])
    /\ events[3].location.global > events[2].location.global

\* The cursor is at a position where no rule has a non-empty match.
CursorStuck == pc = "loop" /\ cursor < Len(script) /\ RulesMatchingAt(cursor) = {}

\* C8: termination on matchable input.  While every visited position has a
\* rule with a non-empty anchored match, at most Len(script) iterations
\* have run, none delivered a no-match event, and analyze returns only with
\* the cursor at the end of the script; and a running analyze call reaches
\* its return unless the cursor comes to a position where no rule matches.
C8_Termination ==
    /\ []((Scanning /\ VisitedMatchable) =>
             /\ Len(events) <= Len(script)
             /\ \A k \in DOMAIN events : ~IsNoMatch(events[k])
             /\ pc # "aborted"
             /\ pc = "done" => cursor = Len(script))
    /\ ((pc = "loop") ~> (pc = "done" \/ CursorStuck))

\* analyze returned after as many iterations as the script has characters.
C8_Witness ==
    /\ pc = "done"
    /\ VisitedMatchable
    /\ Len(script) >= MaxLen
    /\ Len(events) = Len(script)
    /\ cursor = Len(script)

\* C9: empty input.  An analyze call over the empty script delivers no
\* event: its only step is the return, with no event delivered.
C9_EmptyInput ==
    [][(pc = "loop" /\ script = << >>) =>
          (events = << >> /\ events' = << >> /\ pc' = "done")]_vars

\* analyze returned from the empty script with a non-empty table.
C9_Witness ==
    /\ pc = "done"
    /\ script = << >>
    /\ events = << >>
    /\ m_expressions # << >>

MalformedTexts == {"("}

\* C10: pattern compile error.  A define call with a malformed pattern text
\* fails with a regex error and leaves the table as it was, so the table
\* never holds a rule without a compiled expression and a later analyze
\* call meets none.
C10_CompileError ==
    /\ [][(defined' # defined /\ defined'.text \in MalformedTexts) =>
             /\ defined'.result = "regex_error"
             /\ m_expressions' = m_expressions]_vars
    /\ [](\A k \in DOMAIN m_expressions : m_expressions[k].Expr # RegexError)

\* A define call failed on a non-empty table, which was then scanned with.
C10_Witness ==
    /\ defined.result = "regex_error"
    /\ defined.text \in MalformedTexts
    /\ m_expressions # << >>
    /\ pc = "done"
    /\ events # << >>

\* The step is a define call (a repeated failing call changes nothing).
Defines == m_expressions' # m_expressions \/ defined' # defined

\* C11: registration order.  A successful define call leaves the table equal
\* to the old table with the new rule appended at the end, whether or not
\* its kind or pattern text repeats an earlier rule; so the table is the
\* sequence of the successful calls, in call order.
C11_RegistrationOrder ==
    [][(Defines /\ defined'.text \notin MalformedTexts) =>
          /\ defined'.result = "ok"
          /\ Len(m_expressions') = Len(m_expressions) + 1
          /\ SubSeq(m_expressions', 1, Len(m_expressions)) = m_expressions
          /\ Last(m_expressions').ID = defined'.id
          /\ Last(m_expressions').Expr = Compile(defined'.text)]_vars

\* The table holds two rules of the same kind, the second one defined last.
C11_Witness ==
    /\ Len(m_expressions) = 2
    /\ m_expressions[1].ID = m_expressions[2].ID
    /\ defined.result = "ok"
    /\ m_expressions[2] = TokenDef(defined.id, defined.text)

\* The step is an iteration of the loop of analyze.
Iterates == pc = "loop" /\ cursor < Len(script)

\* C12: one event per iteration, correctly classified.  Every iteration
\* appends exactly one event to those delivered; it is a match event iff
\* some rule has a non-empty match anchored at the cursor, and otherwise a
\* no-match event carrying the location of the cursor.
C12_OneEventPerIteration ==
    [][Iterates =>
          /\ Emits
          /\ SubSeq(events', 1, Len(events)) = events
          /\ IsMatch(Last(events')) <=> RulesMatchingAt(cursor) # {}
          /\ IsNoMatch(Last(events')) <=> RulesMatchingAt(cursor) = {}
          /\ IsNoMatch(Last(events')) =>
                Last(events').location = At(LineOf(cursor), ColumnOf(cursor), cursor)]_vars

\* A no-match event was delivered past the first line at a position where a
\* rule of the table matches the empty string only.
C12_Witness ==
    /\ Scanning
    /\ events # << >>
    /\ IsNoMatch(Last(events))
    /\ Last(events).location.line_number > 1
    /\ \E k \in DOMAIN m_expressions :
          LangEnds(m_expressions[k].Expr, script, cursor) = {cursor}

\* C13: anchored, contiguous, in-order tokens.  A match event's LexemeStart
\* is the cursor of its iteration, its lexeme is a match of a rule of its
\* kind anchored there, and the cursor after it is its LexemeEnd; so each
\* match event starts where the previous match event ended (the first at
\* offset 0) and match events come in strictly increasing offset.
C13_AnchoredContiguous ==
    /\ [][(Emits /\ IsMatch(Last(events'))) =>
             /\ Last(events').LexemeStart = cursor
             /\ cursor' = Last(events').LexemeEnd
             /\ \E k \in DOMAIN m_expressions :
                   /\ m_expressions[k].ID = Last(events').id
                   /\ Last(events').LexemeEnd \in LangEnds(m_expressions[k].Expr, script, cursor)]_vars
    /\ [](Scanning =>
             \A k \in DOMAIN events : IsMatch(events[k]) =>
                LET before == {j \in 1 .. (k - 1) : IsMatch(events[j])}
                IN  /\ events[k].LexemeStart =
                          IF before = {} THEN 0
                          ELSE events[CHOOSE j \in before : \A i \in before : i <= j].LexemeEnd
                    /\ \A j \in before : events[j].LexemeStart < events[k].LexemeStart)

\* Two match events were delivered, the second where the first ended, at a
\* position ahead of which a rule of the table matches but not at it.
C13_Witness ==
    /\ Scanning
    /\ Len(events) >= 2
    /\ IsMatch(events[1])
    /\ IsMatch(events[2])
    /\ events[2].LexemeStart = events[1].LexemeEnd
    /\ \E k \in DOMAIN m_expressions :
          /\ ~RuleMatchesAt(k, events[2].LexemeStart)
          /\ \E p \in (events[2].LexemeStart + 1) .. Len(script) : RuleMatchesAt(k, p)

\* C14: abort by sink.  When the error functor throws on a no-match, analyze
\* ends there: that no-match event is the last one delivered, it carries
\* global = the cursor, a position at which no rule matches, every event
\* before it is a match event and their lexemes concatenated are the script
\* up to that position; no event follows it.
C14_AbortBySink ==
    /\ [][(errorThrows /\ Emits /\ IsNoMatch(Last(events'))) => pc' = "aborted"]_vars
    /\ [][pc = "aborted" => (pc' = "loop" /\ events' = << >>)]_vars
    /\ [](pc = "aborted" =>
             /\ events # << >>
             /\ IsNoMatch(Last(events))
             /\ Last(events).location.global = cursor
             /\ RulesMatchingAt(cursor) = {}
             /\ \A k \in 1 .. (Len(events) - 1) : IsMatch(events[k])
             /\ Lexemes(events) = SubSeq(script, 1, cursor))

\* analyze was left by the exception after some lexemes were delivered.
C14_Witness ==
    /\ pc = "aborted"
    /\ Len(events) >= 3
    /\ IsNoMatch(Last(events))
    /\ Last(events).location.global > 1

\* C17: no backtracking and bounds.  The cursor stays within
\* 0 .. Len(script), an iteration never moves it backwards, and every
\* lexeme delivered has cursor = LexemeStart < LexemeEnd <= Len(script).
C17_NoBacktracking ==
    /\ [](0 <= cursor /\ cursor <= Len(script))
    /\ [][Iterates => cursor' >= cursor]_vars
    /\ [][(Emits /\ IsMatch(Last(events'))) =>
             /\ cursor = Last(events').LexemeStart
             /\ Last(events').LexemeStart < Last(events').LexemeEnd
             /\ Last(events').LexemeEnd <= Len(script)]_vars

\* A lexeme was delivered that starts past offset 0 and ends before the end.
C17_Witness ==
    /\ Scanning
    /\ events # << >>
    /\ IsMatch(Last(events))
    /\ Last(events).LexemeStart > 0
    /\ Last(events).LexemeEnd < Len(script)
    /\ cursor = Last(events).LexemeEnd

\* C18: line-start reference.  At the start of every iteration the
\* line-begin reference is offset 0 or the offset right after a newline of
\* the script and is at most the cursor, so 1 + cursor - lastLineBegin is
\* at least 1 as an integer (no wrap-around on conversion to size_t) and
\* every event carries within_line >= 1.
C18_LineStartReference ==
    Scanning =>
        /\ lastLineBegin = 0 \/ (lastLineBegin \in 1 .. Len(script) /\ script[lastLineBegin] = NL)
        /\ lastLineBegin <= cursor
        /\ 1 + cursor - lastLineBegin >= 1
        /\ \A k \in DOMAIN events :
              /\ events[k].location.within_line >= 1
              /\ events[k].location.within_line <= 1 + events[k].location.global

\* The iteration starts right after a newline that ended the last lexeme.
C18_Witness ==
    /\ pc = "loop"
    /\ cursor < Len(script)
    /\ lastLineBegin = cursor
    /\ cursor > 1
    /\ script[cursor] = NL
    /\ events # << >>
    /\ IsMatch(Last(events))

\* C16 as stated: once an analyze call has begun the table never changes.
C16_Original == [][Scanning => m_expressions' = m_expressions]_vars

\* C16 as amended: once an analyze call has begun no step of analyze changes
\* the table; it changes only by a successful define call, which during a
\* scan or after one appends its rule at the end, keeps the existing rules
\* and their order, and leaves the running scan's cursor and events alone.
C16_TableAfterScanBegins ==
    [][(Scanning /\ m_expressions' # m_expressions) =>
          /\ defined'.result = "ok"
          /\ m_expressions' = Append(m_expressions, TokenDef(defined'.id, defined'.text))
          /\ pc' = pc
          /\ cursor' = cursor
          /\ events' = events]_vars

\* A rule defined during a scan matches at the position for which the scan
\* had just delivered a no-match event.
C16_Witness ==
    /\ pc = "loop"
    /\ events # << >>
    /\ IsNoMatch(Last(events))
    /\ Last(events).location.global = cursor
    /\ RulesMatchingAt(cursor) # {}
    /\ m_expressions # << >>
    /\ Last(m_expressions) = TokenDef(defined.id, defined.text)

\* The events of an analyze call over script s with table tbl that runs
\* alone, from offset cur on with the events out delivered so far (cut where
\* a returning error functor would be called without end).
RECURSIVE AloneFrom(_, _, _, _, _)
AloneFrom(tbl, s, throws, cur, out) ==
    IF cur >= Len(s) \/ Len(out) >= Len(s) + MaxRepeat THEN out
    ELSE LET nls  == {i \in 1 .. cur : s[i] = NL}
             loc  == [line_number |-> 1 + Cardinality(nls),
                      within_line |-> 1 + cur - (IF nls = {} THEN 0
                                                 ELSE CHOOSE i \in nls : \A j \in nls : j <= i),
                      global      |-> cur]
             hits == {k \in DOMAIN tbl : Searches[tbl[k].Expr, s][cur] > 0}
             rule == CHOOSE k \in hits : \A l \in hits : k <= l
         IN  IF hits = {}
             THEN LET more == Append(out, [kind |-> "error", location |-> loc])
                  IN  IF throws THEN more ELSE AloneFrom(tbl, s, throws, cur, more)
             ELSE LET size == Searches[tbl[rule].Expr, s][cur]
                  IN  AloneFrom(tbl, s, throws, cur + size,
                                Append(out, [kind |-> "match", location |-> loc,
                                             id |-> tbl[rule].ID,
                                             LexemeStart |-> cur, LexemeEnd |-> cur + size]))

Alone(s, throws) == AloneFrom(m_expressions, s, throws, 0, << >>)

IsPrefix(a, b) == Len(a) <= Len(b) /\ SubSeq(b, 1, Len(a)) = a

\* The events delivered so far are those of the same call run alone.
AsAlone(callPc, s, throws, evs) ==
    callPc # "idle" =>
        /\ IsPrefix(evs, Alone(s, throws))
        /\ callPc \in {"done", "aborted"} => evs = Alone(s, throws)

\* C15: independent scans over one table.  No step of an analyze call
\* changes the table, and each of the calls made on two threads, one after
\* another or interleaved step by step, delivers the events that the same
\* call delivers when run alone, its locations starting at (1, 1, 0).
C15_IndependentScans ==
    /\ [][(events' # events \/ cursor' # cursor \/ pc' # pc \/ script' # script) =>
             m_expressions' = m_expressions]_vars
    /\ [](/\ AsAlone(pc, script, errorThrows, events)
          /\ AsAlone(other.pc, other.script, other.errorThrows, other.events)
          /\ (Scanning /\ events # << >>) => events[1].location = At(1, 1, 0))

\* Both threads are in the middle of a scan, over different scripts, the
\* executing one past its first line.
C15_Witness ==
    /\ pc = "loop"
    /\ other.pc = "loop"
    /\ script # other.script
    /\ 0 < cursor /\ cursor < Len(script)
    /\ 0 < other.cursor /\ other.cursor < Len(other.script)
    /\ location.line_number > 1
    /\ other.events # << >>

====
